---- MODULE Spec2Model ----
(***************************************************************************)
(* A model of LZip (src/src/main.c): a gzip decompressor.  The model       *)
(* follows the C code: the bit reader (next_bit, read_bits,                *)
(* read_bits_and_invert), the canonical Huffman construction               *)
(* (build_huffman_tree), the dynamic header reader                         *)
(* (read_dynamic_huffman_tree), the length/distance engine                 *)
(* (inflate_huffman_codes), the block loop (inflate) and main.             *)
(*                                                                         *)
(* C arrays are modelled as functions over 0..n-1 or as sequences; where a *)
(* sequence is used, C index k is TLA+ index k+1.  A Huffman trie is a     *)
(* function from paths (sequences of bits from the root, 0 = lhs, 1 = rhs) *)
(* to the node's code (-1 for a node that carries no symbol); a NULL child *)
(* is a path outside the domain.                                           *)
(***************************************************************************)
EXTENDS Integers, Sequences, FiniteSets, TLC

VARIABLES
    treeIn,          \* build_huffman_tree's arguments (numof_ranges, ranges)
    treeOut,         \* [built, ok, root]: whether it ran, and the trie it built
    input,           \* the bytes of compressed_input from the first DEFLATE byte on
    stream,          \* bit_stream: [pos, buf, mask, eof]; pos and eof are the FILE's
    pc,              \* where inflate is: start, header, lengths, codes, returned,
                     \* crashed
    fault,           \* why the program crashed: none, null (a NULL node is
                     \* followed), assert, read (outside a table, buf or the
                     \* ranges), store (behind buf), overrun (a store behind
                     \* alphabet)
    last_block,      \* inflate's last_block
    literals_root,   \* the literal/length trie: [fixed, root]
    distances_root,  \* the distance trie: [null, root]
    node,            \* inflate_huffman_codes' node, as the path from the root
    buf,             \* inflate_huffman_codes' buf[0 .. byte_count - 1]
    sink,            \* the bytes written to fd
    ret,             \* inflate's return value, once pc = "returned"
    blocks,          \* history: one record per block header read
    emitted,         \* history: every byte the decoder stored in buf, in order
    ref,             \* history: the last back-reference decoded
    undefined_seen,  \* history: an undefined read or store has been survived
    hlit,            \* read_dynamic_huffman_tree's hlit
    hdist,           \* read_dynamic_huffman_tree's hdist
    code_lengths_root,  \* the trie of the code-length code
    alphabet,        \* alphabet[0 .. i - 1], the combined length vector so far
    code_lengths_node,  \* code_lengths_node, as the path from the root
    trees,           \* history: the arguments of the last dynamic block's two
                     \* calls of build_huffman_tree
    written          \* history: the last stores into alphabet: the symbol
                     \* decoded, the first and the last index stored at and
                     \* hlit + hdist + 258

    \* main
VARIABLES
    argc,            \* main's argc
    file,            \* the file argv[1] names: [exists, bytes]
    fpos,            \* the position of `in` once the header fields are read
    flags,           \* gzip.header.flags
    fname,           \* gzip.fname is not NULL
    mpc,             \* where main is: args, fopen, header, extra, name, comment,
                     \* hcrc, create, inflate, inflating, close, trailer, done,
                     \* exited (idle when inflate is looked at alone)
    exit_code,       \* the exit status, once mpc = "exited"
    failed           \* history: main took an error path

treeVars == <<treeIn, treeOut>>
mainVars == <<argc, file, fpos, flags, fname, mpc, exit_code, failed>>
dynVars == <<hlit, hdist, code_lengths_root, alphabet, code_lengths_node, trees,
             written>>
inflateVars == <<input, stream, pc, fault, undefined_seen, last_block, literals_root, distances_root,
                 node, buf, sink, ret, blocks, emitted, ref>>
vars == <<treeVars, inflateVars, dynVars, mainVars>>

(***************************************************************************)
(* Bounds of the model.                                                    *)
(***************************************************************************)
MaxRanges == 3
MaxSym == 5
MaxBits == 3
\* the block headers a run reads at most (on a truncated input the loop of
\* inflate may go round for ever on the bits of the last byte)
MaxHeaders == 4

(***************************************************************************)
(* Arithmetic helpers.                                                     *)
(***************************************************************************)
\* Bit-lengths are at most 15 (a code-length symbol) and an alphabet has at
\* most 320 symbols, so no unsigned value of the code reaches 2^32 and the
\* C arithmetic is that of the integers.
Min(S) == CHOOSE x \in S : \A y \in S : x <= y

Max(S) == CHOOSE x \in S : \A y \in S : y <= x

RECURSIVE SumOver(_, _)
SumOver(S, f) ==
    IF S = {} THEN 0
    ELSE LET x == CHOOSE y \in S : TRUE IN f[x] + SumOver(S \ {x}, f)

(***************************************************************************)
(* build_huffman_tree                                                      *)
(***************************************************************************)
\* ranges[numof_ranges - 1].end: the last symbol of the alphabet
last_symbol(numof_ranges, ranges) == ranges[numof_ranges].end

\* the first loop: the maximal bit-length of the ranges
max_bit_length(numof_ranges, ranges) ==
    Max({0} \cup {ranges[k].bit_length : k \in 1..numof_ranges})

\* the second loop: the number of symbols of each bit-length; length 0 is
\* counted like every other length
numof_codes_per_length(numof_ranges, ranges) ==
    LET width == [k \in 1..numof_ranges |->
                    ranges[k].end - (IF k > 1 THEN ranges[k - 1].end ELSE -1)]
    IN [b \in 0..max_bit_length(numof_ranges, ranges) |->
          SumOver({k \in 1..numof_ranges : ranges[k].bit_length = b}, width)]

\* the mutant of shift_code: the code is not shifted
shift_code_noshift(code, count) == (code + count)

\* one step of the third loop: code = (code + numof_codes_per_length[bits - 1]) << 1
shift_code(code, count) == ((code + count) * 2)

\* the value of code after the third loop's iteration for `bits`
RECURSIVE code_at(_, _)
code_at(bits, counts) ==
    IF bits = 0 THEN 0 ELSE shift_code(code_at(bits - 1, counts), counts[bits - 1])

\* the third loop: the first code of each bit-length that has symbols
first_codes(counts) ==
    [b \in DOMAIN counts |-> IF b >= 1 /\ counts[b] # 0 THEN code_at(b, counts) ELSE 0]

\* one pass of the fourth loop, for symbol i: the range i lies in, and a
\* code for i when that range has a non-zero bit-length
assign_step(i, acc, ranges) ==
    LET active == IF i > ranges[acc.active_range].end
                  THEN acc.active_range + 1 ELSE acc.active_range
        len == ranges[active].bit_length
    IN IF len # 0
       THEN [active_range |-> active,
             next_code |-> [acc.next_code EXCEPT ![len] = @ + 1],
             tree |-> [acc.tree EXCEPT
                          ![i] = [code |-> acc.next_code[len], bit_length |-> len]]]
       ELSE [acc EXCEPT !.active_range = active]

\* the fourth loop's passes for i = lo .. hi - 1, in order (the interval is
\* halved to keep the evaluation shallow)
RECURSIVE assign_codes(_, _, _, _)
assign_codes(lo, hi, acc, ranges) ==
    IF hi <= lo THEN acc
    ELSE IF hi = lo + 1 THEN assign_step(lo, acc, ranges)
    ELSE LET mid == (lo + hi) \div 2
             left == assign_codes(lo, mid, acc, ranges)
         IN IF left.active_range >= 1 THEN assign_codes(mid, hi, left, ranges) ELSE left

\* the path the fifth loop walks for a code: bit (bits - 1) first, bit 0 last
code_path(code, bit_length) ==
    [k \in 1..bit_length |-> (code \div 2^(bit_length - k)) % 2]

Prefixes(path) == {SubSeq(path, 1, k) : k \in 0..Len(path)}

\* one pass of the fifth loop, for symbol i: a symbol with a non-zero
\* bit-length is walked from the root, missing nodes are allocated with code
\* -1, and the node reached gets the symbol; assert(node->code == -1) aborts
\* the program otherwise
insert_step(i, tree, acc) ==
    IF ~acc.ok \/ tree[i].bit_length = 0 THEN acc
    ELSE LET path == code_path(tree[i].code, tree[i].bit_length)
             grown == acc.root @@ [q \in Prefixes(path) |-> -1]
         IN IF grown[path] # -1
            THEN [ok |-> FALSE, root |-> grown]
            ELSE [ok |-> TRUE, root |-> [grown EXCEPT ![path] = i]]

\* the fifth loop's passes for i = lo .. hi - 1, in order
RECURSIVE insert_codes(_, _, _, _)
insert_codes(lo, hi, tree, acc) ==
    IF hi <= lo THEN acc
    ELSE IF hi = lo + 1 THEN insert_step(lo, tree, acc)
    ELSE LET mid == (lo + hi) \div 2
             left == insert_codes(lo, mid, tree, acc)
         IN IF left.ok THEN insert_codes(mid, hi, tree, left) ELSE left

EmptyRoot == (<<>> :> -1)

NoTree == [built |-> FALSE, ok |-> TRUE, root |-> EmptyRoot]

\* build_huffman_tree(root, numof_ranges, ranges), for numof_ranges >= 1 and
\* a zeroed root: [ok |-> the assertion held, root |-> the trie]
build_huffman_tree(numof_ranges, ranges) ==
    LET last == last_symbol(numof_ranges, ranges)
        counts == numof_codes_per_length(numof_ranges, ranges)
        assigned == assign_codes(0, last + 1,
                      [active_range |-> 1, next_code |-> first_codes(counts),
                       tree |-> [s \in 0..last |-> [code |-> 0, bit_length |-> 0]]],
                      ranges)
    IN insert_codes(0, last + 1, assigned.tree, [ok |-> TRUE, root |-> EmptyRoot])

(***************************************************************************)
(* build_fixed_huffman_tree                                                *)
(***************************************************************************)
FixedRanges ==
    << [end |-> 143, bit_length |-> 8], [end |-> 255, bit_length |-> 9],
       [end |-> 279, bit_length |-> 7], [end |-> 287, bit_length |-> 8] >>

\* the trie build_fixed_huffman_tree makes; it is the same for every block,
\* so literals_root holds a mark (fixed) instead of a copy of it
FixedRoot == build_huffman_tree(4, FixedRanges).root

(***************************************************************************)
(* The bit reader.  A failed fread leaves stream->buf as it was and sets   *)
(* the FILE's end-of-file indicator; next_bit only prints a message.       *)
(***************************************************************************)
next_bit(st) ==
    LET bit == IF (st.buf \div st.mask) % 2 = 1 THEN 1 ELSE 0
        mask == (st.mask * 2) % 256
    IN [bit |-> bit,
        st |-> IF mask # 0 THEN [st EXCEPT !.mask = mask]
               ELSE IF st.pos < Len(input)
                    THEN [st EXCEPT !.mask = 1, !.buf = input[st.pos + 1],
                                    !.pos = st.pos + 1]
                    ELSE [st EXCEPT !.mask = 1, !.eof = TRUE]]

\* the number of bits of the input before the bit next_bit returns next
BitOffset(st) ==
    (st.pos - 1) * 8 + Cardinality({m \in {1, 2, 4, 8, 16, 32, 64, 128} : m < st.mask})

\* read_bits_and_invert: bits_value |= (next_bit(stream) << i), i = 0 .. numof_bits - 1
RECURSIVE invert_loop(_, _, _, _)
invert_loop(st, numof_bits, i, bits_value) ==
    IF i >= numof_bits THEN [val |-> bits_value, st |-> st]
    ELSE LET r == next_bit(st)
         IN invert_loop(r.st, numof_bits, i + 1, bits_value + r.bit * 2^i)

read_bits_and_invert(st, numof_bits) == invert_loop(st, numof_bits, 0, 0)

\* the mutant of read_bits: the first bit read becomes bit 0
read_bits_lsb_first(st, numof_bits) == invert_loop(st, numof_bits, 0, 0)

\* read_bits: bits_value = (bits_value << 1) | next_bit(stream), numof_bits times
RECURSIVE shift_loop(_, _, _)
shift_loop(st, numof_bits, bits_value) ==
    IF numof_bits = 0 THEN [val |-> bits_value, st |-> st]
    ELSE LET r == next_bit(st)
         IN shift_loop(r.st, numof_bits - 1, bits_value * 2 + r.bit)

read_bits(st, numof_bits) == shift_loop(st, numof_bits, 0)

\* the next n bits of the stream in the order next_bit hands them out
RECURSIVE PeekBits(_, _)
PeekBits(st, n) ==
    IF n = 0 THEN <<>>
    ELSE LET r == next_bit(st) IN <<r.bit>> \o PeekBits(r.st, n - 1)

(***************************************************************************)
(* inflate_huffman_codes                                                   *)
(***************************************************************************)
MAX_DISTANCE == 32768

extra_length_addend ==
    <<11, 13, 15, 17, 19, 23, 27, 31, 35, 43, 51, 59,
      67, 83, 99, 115, 131, 163, 195, 227>>

extra_dist_addend ==
    <<4, 6, 8, 12, 16, 24, 32, 48, 64, 96, 128, 192, 256,
      384, 512, 768, 1024, 1536, 2048, 3072, 4096, 6144, 8192, 12288, 16384, 24576>>

\* values an out-of-bounds read may find: a byte before buf, and a word
\* after extra_dist_addend
GarbageBytes == {0, 255}
GarbageWords == {0, 7}

LitRoot == IF literals_root.fixed THEN FixedRoot ELSE literals_root.root

\* the length of the back-reference that length symbol `code` (257..285)
\* starts, and the stream after its extra bits
read_length(st, code) ==
    IF code < 265 THEN [val |-> code - 254, st |-> st, extra |-> 0, nbits |-> 0]
    ELSE IF code < 285
    THEN LET e == read_bits_and_invert(st, (code - 261) \div 4)
         IN [val |-> e.val + extra_length_addend[code - 265 + 1], st |-> e.st,
             extra |-> e.val, nbits |-> (code - 261) \div 4]
    ELSE [val |-> 258, st |-> st, extra |-> 0, nbits |-> 0]

\* the walk of the distance trie: while(node->code == -1) descend by a bit;
\* null when the walk steps onto a NULL child
RECURSIVE walk_distances(_, _, _)
walk_distances(st, path, root) ==
    IF path \notin DOMAIN root THEN [null |-> TRUE, val |-> 0, st |-> st]
    ELSE IF root[path] # -1 THEN [null |-> FALSE, val |-> root[path], st |-> st]
    ELSE LET r == next_bit(st)
         IN walk_distances(r.st, Append(path, r.bit), root)

\* the distance symbol: 5 bits with read_bits when distances_root is NULL,
\* a walk of the distance trie otherwise
read_dist_symbol(st) ==
    IF distances_root.null
    THEN [null |-> FALSE] @@ read_bits(st, 5)
    ELSE walk_distances(st, <<>>, distances_root.root)

\* dist after the extra bits: dist itself up to 3, extra_dist + the addend
\* above; the table has 26 entries and g stands for what lies behind it
read_dist(st, dist, g) ==
    IF dist > 3
    THEN LET e == read_bits_and_invert(st, (dist - 2) \div 2)
         IN [val |-> e.val + (IF dist - 4 < 26 THEN extra_dist_addend[dist - 4 + 1] ELSE g),
             st |-> e.st, extra |-> e.val, nbits |-> (dist - 2) \div 2]
    ELSE [val |-> dist, st |-> st, extra |-> 0, nbits |-> 0]

\* buf, the sink and the history of stored bytes are byte strings kept run
\* by run: <<[byte |-> b, count |-> n], ..>> is n bytes b and so on, adjacent
\* runs hold different bytes, so that equal strings are equal values
RECURSIVE Size(_)
Size(bytes) ==
    IF bytes = <<>> THEN 0
    ELSE bytes[Len(bytes)].count + Size(SubSeq(bytes, 1, Len(bytes) - 1))

\* the byte at C index i (0 <= i < Size(bytes))
RECURSIVE At(_, _)
At(bytes, i) ==
    IF i < bytes[1].count THEN bytes[1].byte
    ELSE At(Tail(bytes), i - bytes[1].count)

\* *(ptr++) = byte
Push(bytes, byte) ==
    IF bytes # <<>> /\ bytes[Len(bytes)].byte = byte
    THEN [bytes EXCEPT ![Len(bytes)].count = @ + 1]
    ELSE Append(bytes, [byte |-> byte, count |-> 1])

\* the bytes of the sequence seq[lo .. hi - 1] stored one after the other
RECURSIVE PushAll(_, _, _, _)
PushAll(bytes, seq, lo, hi) ==
    IF hi <= lo THEN bytes
    ELSE IF hi = lo + 1 THEN Push(bytes, seq[lo])
    ELSE LET mid == (lo + hi) \div 2
             left == PushAll(bytes, seq, lo, mid)
         IN IF Len(left) >= 0 THEN PushAll(left, seq, mid, hi) ELSE left

\* write(out_fd, buf + i, 1) for every byte of buf: the sink grows by buf
Join(bytes, more) ==
    IF more = <<>> THEN bytes
    ELSE IF bytes = <<>> THEN more
    ELSE IF bytes[Len(bytes)].byte = more[1].byte
    THEN SubSeq(bytes, 1, Len(bytes) - 1)
         \o <<[byte |-> more[1].byte,
               count |-> bytes[Len(bytes)].count + more[1].count]>>
         \o Tail(more)
    ELSE bytes \o more

\* the C index into buf of the k-th byte (k = 0, 1, ..) a copy reads:
\* backptr = ptr - dist - 1, then backptr++ per byte
back_index(byte_count, dist, k) == byte_count - dist - 1 + k

\* one pass of the copy loop, *(ptr++) = *(backptr++), for byte k; a byte
\* read from before buf is g
copy_step(old, dist, k, tail, g) ==
    LET idx == back_index(Size(old), dist, k)
    IN Append(tail, IF idx < 0 THEN g
                    ELSE IF idx < Size(old) THEN At(old, idx)
                    ELSE tail[idx - Size(old) + 1])

\* the bytes the copy loop's passes lo .. hi - 1 append to tail, in order
RECURSIVE copy_loop(_, _, _, _, _, _)
copy_loop(old, dist, lo, hi, tail, g) ==
    IF hi <= lo THEN tail
    ELSE IF hi = lo + 1 THEN copy_step(old, dist, lo, tail, g)
    ELSE LET mid == (lo + hi) \div 2
             left == copy_loop(old, dist, lo, mid, tail, g)
         IN IF Len(left) >= 0 THEN copy_loop(old, dist, mid, hi, left, g) ELSE left

\* inflate's loop test: while(!last_block)
loop_again(last) == last = 0

(***************************************************************************)
(* read_dynamic_huffman_tree                                               *)
(***************************************************************************)
code_length_offsets ==
    <<16, 17, 18, 0, 8, 7, 9, 6, 10, 5, 11, 4, 12, 3, 13, 2, 14, 1, 15>>

\* for(i = 0; i < hclen + 4; ++i)
\*     code_lengths[code_length_offsets[i]] = read_bits_and_invert(stream, 3)
RECURSIVE read_code_lengths(_, _, _, _)
read_code_lengths(st, i, n, code_lengths) ==
    IF i >= n THEN [st |-> st, code_lengths |-> code_lengths]
    ELSE LET r == read_bits_and_invert(st, 3)
             stored == [code_lengths EXCEPT ![code_length_offsets[i + 1]] = r.val]
         IN IF stored[0] >= 0 /\ r.st.pos >= 0
            THEN read_code_lengths(r.st, i + 1, n, stored)
            ELSE [st |-> st, code_lengths |-> code_lengths]

\* one pass of a loop that groups lengths into ranges: values[i] is the
\* length at C index i, first the index the loop starts at, base what is
\* subtracted from i to get the symbol; j is Len(ranges) - 1
\*     if((i > first) && (values[i] != values[i - 1])) ++j;
\*     ranges[j].end = i - base; ranges[j].bit_length = values[i];
range_step(values, i, first, base, ranges) ==
    LET r == [end |-> i - base, bit_length |-> values[i]]
    IN IF i > first /\ values[i] # values[i - 1] THEN Append(ranges, r)
       ELSE IF ranges = <<>> THEN <<r>>
       ELSE [ranges EXCEPT ![Len(ranges)] = r]

\* the passes lo .. hi - 1 of such a loop
RECURSIVE ranges_loop(_, _, _, _, _, _)
ranges_loop(values, lo, hi, first, base, ranges) ==
    IF hi <= lo THEN ranges
    ELSE IF hi = lo + 1 THEN range_step(values, lo, first, base, ranges)
    ELSE LET mid == (lo + hi) \div 2
             left == ranges_loop(values, lo, mid, first, base, ranges)
         IN IF Len(left) >= 0 THEN ranges_loop(values, mid, hi, first, base, left)
            ELSE left

\* the ranges of the code-length code: the loop over i = 0 .. 18
code_length_ranges(code_lengths) == ranges_loop(code_lengths, 0, 19, 0, 0, <<>>)

\* the number of entries malloc'ed for alphabet
alphabet_length == hlit + hdist + 258

\* alphabet[i] as the C code reads it; g is what lies outside the array
alphabet_at(i, g) == IF i >= 0 /\ i < Len(alphabet) THEN alphabet[i + 1] ELSE g

\* the loop for(i = 0; i <= hlit + 257; ++i) and the j it ends with
literal_ranges ==
    LET values == [i \in 0..(hlit + 257) |-> alphabet_at(i, 0)]
        ranges == ranges_loop(values, 0, hlit + 258, 0, 0, <<>>)
    IN [numof_ranges |-> Len(ranges) - 1, ranges |-> ranges]

\* the loop for(--i; i <= hdist + hlit + 258; ++i) and the j it ends with;
\* its last pass reads alphabet[hlit + hdist + 258], behind the array
distance_ranges(g) ==
    LET values == [i \in (hlit + 257)..alphabet_length |-> alphabet_at(i, g)]
        ranges == ranges_loop(values, hlit + 257, alphabet_length + 1,
                              hlit + 257, hlit + 257, <<>>)
    IN [numof_ranges |-> Len(ranges) - 1, ranges |-> ranges]

\* what a call build_huffman_tree(root, numof_ranges, ranges) comes to.
\* With numof_ranges = 0 the function reads ranges[numof_ranges - 1], which
\* is undefined: the program crashes, or goes on with a trie without leaves
tree_outcomes(call) ==
    IF call.numof_ranges = 0
    THEN {[fault |-> "read", undefined |-> TRUE, root |-> EmptyRoot],
          [fault |-> "none", undefined |-> TRUE, root |-> EmptyRoot]}
    ELSE LET t == build_huffman_tree(call.numof_ranges, call.ranges)
         IN {[fault |-> IF t.ok THEN "none" ELSE "assert", undefined |-> FALSE,
              root |-> t.root]}

NoStores == [code |-> -1, first |-> 0, last |-> 0, size |-> 0]

\* what the pass that decoded `code` stored: alphabet[first .. last]
stores(code, n) ==
    [code |-> code, first |-> Len(alphabet), last |-> Len(alphabet) + n - 1,
     size |-> alphabet_length]

NoTrees == [calls |-> 0, clean |-> TRUE, hlit |-> 0, hdist |-> 0, alphabet |-> <<>>,
            literals |-> [numof_ranges |-> 0, ranges |-> <<>>],
            distances |-> [numof_ranges |-> 0, ranges |-> <<>>]]

NoRef == [set |-> FALSE, fixed |-> FALSE, clean |-> TRUE, length |-> 0, distance |-> 0,
          before |-> 0, in_block |-> 0, copied |-> <<>>,
          lbits |-> <<>>, lextra |-> 0, dbits |-> <<>>, dsym |-> 0,
          ebits |-> <<>>, dextra |-> 0]

Last(s) == s[Len(s)]

EndBlock(how) == [blocks EXCEPT ![Len(blocks)].st = how]

\* inflate_huffman_codes has returned (inflate ignores the value) and
\* inflate tests its loop condition
AfterBlock ==
    IF loop_again(last_block)
    THEN pc' = "header" /\ UNCHANGED ret
    ELSE pc' = "returned" /\ ret' = TRUE

\* inflate's prologue: the first byte is read, unchecked; with an empty
\* input stream.buf stays uninitialised
InflateStart ==
    /\ pc = "start"
    /\ \/ /\ Len(input) > 0
          /\ stream' = [pos |-> 1, buf |-> input[1], mask |-> 1, eof |-> FALSE]
       \/ /\ Len(input) = 0
          /\ \E g \in GarbageBytes :
                stream' = [pos |-> 0, buf |-> g, mask |-> 1, eof |-> TRUE]
    /\ pc' = "header"
    /\ UNCHANGED <<input, fault, undefined_seen, last_block, literals_root,
                   distances_root, node, buf, sink, ret, blocks, emitted, ref,
                   treeVars, mainVars, dynVars>>

\* one pass of inflate's do-loop up to the call of inflate_huffman_codes:
\* the header bits and, for a fixed block, the fixed tree
BlockHeader ==
    /\ pc = "header"
    /\ Len(blocks) < MaxHeaders
    /\ LET b == next_bit(stream)
           f == read_bits_and_invert(b.st, 2)
           entry == [bfinal |-> b.bit, btype |-> f.val, st |-> "open",
                     at |-> BitOffset(stream), stale |-> stream.eof]
       IN /\ last_block' = b.bit
          /\ \/ /\ f.val \in {0, 3}
                /\ stream' = f.st
                /\ blocks' = Append(blocks, [entry EXCEPT !.st = "rejected"])
                /\ pc' = "returned"
                /\ ret' = FALSE
                /\ UNCHANGED <<literals_root, distances_root, node, buf, fault,
                               dynVars>>
             \/ /\ f.val = 1
                /\ stream' = f.st
                /\ blocks' = Append(blocks, entry)
                /\ literals_root' = [fixed |-> TRUE, root |-> EmptyRoot]
                /\ distances_root' = [null |-> TRUE, root |-> EmptyRoot]
                /\ node' = <<>>
                /\ buf' = <<>>
                /\ pc' = "codes"
                /\ UNCHANGED <<ret, fault, dynVars>>
             \/ /\ f.val = 2
                /\ LET l == read_bits_and_invert(f.st, 5)
                       d == read_bits_and_invert(l.st, 5)
                       c == read_bits_and_invert(d.st, 4)
                       lens == read_code_lengths(c.st, 0, c.val + 4,
                                                 [k \in 0..18 |-> 0])
                       ranges == code_length_ranges(lens.code_lengths)
                       t == build_huffman_tree(Len(ranges), ranges)
                   IN /\ stream' = lens.st
                      /\ blocks' = Append(blocks, entry)
                      /\ literals_root' = [fixed |-> FALSE, root |-> EmptyRoot]
                      /\ distances_root' = [null |-> FALSE, root |-> EmptyRoot]
                      /\ hlit' = l.val
                      /\ hdist' = d.val
                      /\ code_lengths_root' = t.root
                      /\ alphabet' = <<>>
                      /\ code_lengths_node' = <<>>
                      /\ IF t.ok THEN pc' = "lengths" /\ UNCHANGED fault
                         ELSE pc' = "crashed" /\ fault' = "assert"
                      /\ written' = NoStores
                      /\ UNCHANGED <<node, buf, ret, trees>>
    /\ UNCHANGED <<input, undefined_seen, sink, emitted, ref, treeVars, mainVars>>

\* one pass of the while(!stop_code) loop of inflate_huffman_codes with the
\* end of file reached: the function returns false without writing buf
CodesEof ==
    /\ pc = "codes"
    /\ stream.eof
    /\ blocks' = EndBlock("eof")
    /\ AfterBlock
    /\ UNCHANGED <<input, stream, fault, undefined_seen, last_block, literals_root,
                   distances_root, node, buf, sink, emitted, ref, treeVars, mainVars, dynVars>>

\* one pass of the loop that reads a bit and steps onto a node that is no
\* leaf, or onto a NULL child (node->code then faults)
CodesDescend ==
    /\ pc = "codes"
    /\ ~stream.eof
    /\ LET r == next_bit(stream)
           path == Append(node, r.bit)
       IN /\ stream' = r.st
          /\ \/ /\ path \notin DOMAIN LitRoot
                /\ pc' = "crashed"
                /\ fault' = "null"
                /\ UNCHANGED node
             \/ /\ path \in DOMAIN LitRoot
                /\ LitRoot[path] = -1
                /\ node' = path
                /\ UNCHANGED <<pc, fault>>
    /\ UNCHANGED <<input, undefined_seen, last_block, literals_root, distances_root,
                   buf, sink, ret, blocks, emitted, ref, treeVars, mainVars, dynVars>>

\* the leaf a pass of the loop steps onto, if it does
LeafStep ==
    LET r == next_bit(stream)
        path == Append(node, r.bit)
    IN [leaf |-> pc = "codes" /\ ~stream.eof /\ path \in DOMAIN LitRoot
                   /\ LitRoot[path] # -1,
        code |-> IF path \in DOMAIN LitRoot THEN LitRoot[path] ELSE -1,
        st |-> r.st]

\* a pass that decodes a literal: *(ptr++) = node->code.  A store behind
\* buf[MAX_DISTANCE - 1] is undefined: the program may crash there
CodesLiteral ==
    /\ LeafStep.leaf
    /\ LeafStep.code < 256
    /\ stream' = LeafStep.st
    /\ \/ /\ buf' = Push(buf, LeafStep.code)
          /\ emitted' = Push(emitted, LeafStep.code)
          /\ node' = <<>>
          /\ undefined_seen' = (undefined_seen \/ Size(buf) >= MAX_DISTANCE)
          /\ UNCHANGED <<pc, fault>>
       \/ /\ Size(buf) >= MAX_DISTANCE
          /\ pc' = "crashed"
          /\ fault' = "store"
          /\ UNCHANGED <<buf, emitted, node, undefined_seen>>
    /\ UNCHANGED <<input, last_block, literals_root, distances_root, sink, ret,
                   blocks, ref, treeVars, mainVars, dynVars>>

\* a pass that decodes the stop code: the loop ends, buf[0 .. byte_count - 1]
\* is written to fd, the function returns true and inflate tests its loop
\* condition
CodesStop ==
    /\ LeafStep.leaf
    /\ LeafStep.code = 256
    /\ stream' = LeafStep.st
    /\ sink' = Join(sink, buf)
    /\ blocks' = EndBlock("eob")
    /\ AfterBlock
    /\ UNCHANGED <<input, fault, undefined_seen, last_block, literals_root,
                   distances_root, node, buf, emitted, ref, treeVars, mainVars, dynVars>>

\* a pass that decodes a symbol above 285: assert(node->code < 286) aborts
CodesAssert ==
    /\ LeafStep.leaf
    /\ LeafStep.code >= 286
    /\ stream' = LeafStep.st
    /\ pc' = "crashed"
    /\ fault' = "assert"
    /\ UNCHANGED <<input, undefined_seen, last_block, literals_root, distances_root,
                   node, buf, sink, ret, blocks, emitted, ref, treeVars, mainVars, dynVars>>

\* a pass that decodes a back-reference: the length, the distance symbol,
\* the distance and the copy.  Reads before buf and behind
\* extra_dist_addend, and stores behind buf, are undefined: they yield some
\* value, or the program crashes
CodesReference ==
    /\ LeafStep.leaf
    /\ LeafStep.code > 256
    /\ LeafStep.code < 286
    /\ \E gw \in GarbageWords, gb \in GarbageBytes :
        LET len == read_length(LeafStep.st, LeafStep.code)
            sym == read_dist_symbol(len.st)
            dist == read_dist(sym.st, sym.val, gw)
            tail == copy_loop(buf, dist.val, 0, len.val, <<>>, gb)
            faults == (IF sym.val - 4 >= 26
                          \/ back_index(Size(buf), dist.val, 0) < 0
                       THEN {"read"} ELSE {})
                      \cup (IF Size(buf) + len.val > MAX_DISTANCE
                            THEN {"store"} ELSE {})
            undefined == faults # {}
        IN \/ /\ sym.null
              /\ stream' = sym.st
              /\ pc' = "crashed"
              /\ fault' = "null"
              /\ UNCHANGED <<buf, emitted, node, ref, undefined_seen>>
           \/ /\ ~sym.null
              /\ stream' = dist.st
              /\ pc' = "crashed"
              /\ fault' \in faults
              /\ UNCHANGED <<buf, emitted, node, ref, undefined_seen>>
           \/ /\ ~sym.null
              /\ stream' = dist.st
              /\ undefined_seen' = (undefined_seen \/ undefined)
              /\ buf' = PushAll(buf, tail, 1, Len(tail) + 1)
              /\ emitted' = PushAll(emitted, tail, 1, Len(tail) + 1)
              /\ node' = <<>>
              /\ ref' = [set |-> TRUE, fixed |-> distances_root.null,
                         clean |-> ~undefined_seen,
                         length |-> len.val, distance |-> dist.val + 1,
                         before |-> Size(emitted), in_block |-> Size(buf),
                         copied |-> tail,
                         lbits |-> PeekBits(LeafStep.st, len.nbits),
                         lextra |-> len.extra,
                         dbits |-> IF distances_root.null THEN PeekBits(len.st, 5)
                                   ELSE <<>>,
                         dsym |-> sym.val,
                         ebits |-> PeekBits(sym.st, dist.nbits),
                         dextra |-> dist.extra]
              /\ UNCHANGED <<pc, fault>>
    /\ UNCHANGED <<input, last_block, literals_root, distances_root, sink, ret,
                   blocks, treeVars, mainVars, dynVars>>

(***************************************************************************)
(* The loop of read_dynamic_huffman_tree that decodes the combined length  *)
(* vector, one action per kind of pass, and the rest of the function.  The *)
(* loop does not test for the end of the file.                             *)
(***************************************************************************)
\* the node a pass of the loop steps onto
LengthsStep ==
    LET r == next_bit(stream)
        path == Append(code_lengths_node, r.bit)
    IN [in_loop |-> pc = "lengths" /\ Len(alphabet) < alphabet_length,
        null |-> path \notin DOMAIN code_lengths_root,
        code |-> IF path \in DOMAIN code_lengths_root
                 THEN code_lengths_root[path] ELSE -1,
        path |-> path,
        st |-> r.st]

\* a pass that ends on an inner node, or follows a NULL child
LengthsDescend ==
    /\ LengthsStep.in_loop
    /\ LengthsStep.code = -1
    /\ stream' = LengthsStep.st
    /\ IF LengthsStep.null
       THEN pc' = "crashed" /\ fault' = "null" /\ UNCHANGED code_lengths_node
       ELSE code_lengths_node' = LengthsStep.path /\ UNCHANGED <<pc, fault>>
    /\ UNCHANGED <<input, undefined_seen, last_block, literals_root, distances_root,
                   node, buf, sink, ret, blocks, emitted, ref, treeVars, mainVars,
                   hlit, hdist, code_lengths_root, alphabet, trees, written>>

\* a pass that decodes a length 0 .. 15: alphabet[i] = code; ++i
LengthsSymbol ==
    /\ LengthsStep.in_loop
    /\ LengthsStep.code \in 0..15
    /\ stream' = LengthsStep.st
    /\ alphabet' = Append(alphabet, LengthsStep.code)
    /\ written' = stores(LengthsStep.code, 1)
    /\ code_lengths_node' = <<>>
    /\ UNCHANGED <<input, pc, fault, undefined_seen, last_block, literals_root,
                   distances_root, node, buf, sink, ret, blocks, emitted, ref,
                   treeVars, mainVars, hlit, hdist, code_lengths_root, trees>>

\* the repeat count of symbols 16, 17 and 18
repeat_length(st, code) ==
    LET r == read_bits_and_invert(st, IF code = 16 THEN 2 ELSE IF code = 17 THEN 3 ELSE 7)
    IN [val |-> r.val + (IF code = 18 THEN 11 ELSE 3), st |-> r.st]

\* a pass that decodes a repeat symbol: while(repeat_length--) stores the
\* previous length (16) or 0 (17, 18).  With symbol 16 at i = 0 the previous
\* length is alphabet[-1], some word; a store behind the array is undefined:
\* the program may crash, or go on with the stores made
LengthsRepeat ==
    /\ LengthsStep.in_loop
    /\ LengthsStep.code > 15
    /\ \E g \in GarbageWords :
        LET n == repeat_length(LengthsStep.st, LengthsStep.code)
            value == IF LengthsStep.code = 16
                     THEN alphabet_at(Len(alphabet) - 1, g) ELSE 0
            behind == Len(alphabet) + n.val > alphabet_length
            before == LengthsStep.code = 16 /\ alphabet = <<>>
        IN /\ stream' = n.st
           /\ written' = stores(LengthsStep.code, n.val)
           /\ \/ /\ behind
                 /\ pc' = "crashed"
                 /\ fault' = "overrun"
                 /\ UNCHANGED <<alphabet, code_lengths_node, undefined_seen>>
              \/ /\ alphabet' = alphabet \o [k \in 1..n.val |-> value]
                 /\ code_lengths_node' = <<>>
                 /\ undefined_seen' = (undefined_seen \/ behind \/ before)
                 /\ UNCHANGED <<pc, fault>>
    /\ UNCHANGED <<input, last_block, literals_root, distances_root, node, buf,
                   sink, ret, blocks, emitted, ref, treeVars, mainVars, hlit, hdist,
                   code_lengths_root, trees>>

\* after the loop: the ranges of the two alphabets, the two calls of
\* build_huffman_tree and, back in inflate, the call of
\* inflate_huffman_codes
LengthsBuild ==
    /\ pc = "lengths"
    /\ Len(alphabet) >= alphabet_length
    /\ \E g \in GarbageWords :
        LET lit == literal_ranges
            dist == distance_ranges(g)
        IN \E l \in tree_outcomes(lit), d \in tree_outcomes(dist) :
            LET made == [calls |-> IF l.fault = "none" THEN 2 ELSE 1,
                         clean |-> ~undefined_seen,
                         hlit |-> hlit, hdist |-> hdist,
                         alphabet |-> SubSeq(alphabet, 1, alphabet_length),
                         literals |-> lit, distances |-> dist]
                crash == IF l.fault # "none" THEN l.fault ELSE d.fault
            IN /\ trees' = made
               /\ IF crash # "none"
                  THEN /\ pc' = "crashed"
                       /\ fault' = crash
                       /\ UNCHANGED <<literals_root, distances_root, node, buf,
                                      undefined_seen>>
                  ELSE /\ pc' = "codes"
                       /\ literals_root' = [fixed |-> FALSE, root |-> l.root]
                       /\ distances_root' = [null |-> FALSE, root |-> d.root]
                       /\ node' = <<>>
                       /\ buf' = <<>>
                       /\ undefined_seen' = TRUE
                       /\ UNCHANGED fault
    /\ UNCHANGED <<input, stream, last_block, sink, ret, blocks, emitted, ref,
                   treeVars, mainVars, hlit, hdist, code_lengths_root, alphabet,
                   code_lengths_node, written>>

(***************************************************************************)
(* The inputs of the model: DEFLATE streams written out bit by bit from    *)
(* RFC 1951 (the fixed code of 3.2.6, extra bits least significant bit     *)
(* first, Huffman codes and the 5-bit fixed distance code most significant *)
(* bit first, bytes filled from bit 0).                                    *)
(***************************************************************************)
RfcFixedCode(s) ==
    IF s <= 143 THEN [len |-> 8, code |-> 48 + s]
    ELSE IF s <= 255 THEN [len |-> 9, code |-> 400 + (s - 144)]
    ELSE IF s <= 279 THEN [len |-> 7, code |-> s - 256]
    ELSE [len |-> 8, code |-> 192 + (s - 280)]

\* the bits of a code, most significant first
RfcBits(code, len) == [k \in 1..len |-> (code \div 2^(len - k)) % 2]

\* the bits of a number, least significant first
RfcLsb(value, len) == [k \in 1..len |-> (value \div 2^(k - 1)) % 2]

RfcLengthExtraBits(lsym) ==
    IF lsym < 265 \/ lsym = 285 THEN 0 ELSE (lsym - 261) \div 4

RfcDistExtraBits(dsym) == IF dsym < 4 THEN 0 ELSE (dsym - 2) \div 2

Sym(v) == [t |-> "sym", v |-> v, lextra |-> 0, dsym |-> 0, dextra |-> 0]
Ref(lsym, lextra, dsym, dextra) ==
    [t |-> "ref", v |-> lsym, lextra |-> lextra, dsym |-> dsym, dextra |-> dextra]

FixedTokenBits(tok) ==
    LET c == RfcFixedCode(tok.v)
    IN IF tok.t = "sym" THEN RfcBits(c.code, c.len)
       ELSE RfcBits(c.code, c.len) \o RfcLsb(tok.lextra, RfcLengthExtraBits(tok.v))
              \o RfcBits(tok.dsym, 5) \o RfcLsb(tok.dextra, RfcDistExtraBits(tok.dsym))

RECURSIVE FlattenRange(_, _, _)
FlattenRange(seqs, lo, hi) ==
    IF hi < lo THEN <<>>
    ELSE IF hi = lo THEN seqs[lo]
    ELSE LET mid == (lo + hi) \div 2
         IN FlattenRange(seqs, lo, mid) \o FlattenRange(seqs, mid + 1, hi)

Flatten(seqs) == FlattenRange(seqs, 1, Len(seqs))

\* the canonical code of RFC 1951, 3.2.2, for a length vector given as a
\* sequence (symbol s at index s + 1)
RfcVecNextCode(lens, b) ==
    LET count(c) == IF c = 0 THEN 0
                    ELSE Cardinality({t \in 1..Len(lens) : lens[t] = c})
        next[c \in 0..b] == IF c = 0 THEN 0 ELSE (next[c - 1] + count(c - 1)) * 2
    IN next[b]

RfcVecCode(lens, s) ==
    [len |-> lens[s + 1],
     code |-> RfcVecNextCode(lens, lens[s + 1])
                + Cardinality({t \in 1..s : lens[t] = lens[s + 1]})]

\* RFC 1951, 3.2.7: the order in which the code lengths of the code-length
\* code are sent, and the code-length code the streams below use (symbols 0,
\* 1, 2, 3, 16, 17 and 18; a complete code)
RfcCodeLengthOrder ==
    <<16, 17, 18, 0, 8, 7, 9, 6, 10, 5, 11, 4, 12, 3, 13, 2, 14, 1, 15>>

ClLens ==
    [k \in 1..19 |-> IF k - 1 \in {0, 18} THEN 2
                     ELSE IF k - 1 \in {1, 2, 17} THEN 3
                     ELSE IF k - 1 \in {3, 16} THEN 4
                     ELSE 0]

\* a symbol of the code-length code with its extra bits, c = <<symbol, extra>>
ClSymBits(c) ==
    LET k == RfcVecCode(ClLens, c[1])
    IN RfcBits(k.code, k.len)
         \o RfcLsb(c[2], IF c[1] = 16 THEN 2 ELSE IF c[1] = 17 THEN 3
                          ELSE IF c[1] = 18 THEN 7 ELSE 0)

\* the length vector a sequence of code-length symbols stands for
RECURSIVE RfcExpand(_, _, _)
RfcExpand(cls, k, acc) ==
    IF k > Len(cls) THEN acc
    ELSE LET c == cls[k]
             run == IF c[1] <= 15 THEN <<c[1]>>
                    ELSE IF c[1] = 16
                    THEN [i \in 1..(c[2] + 3) |-> IF acc = <<>> THEN 0 ELSE acc[Len(acc)]]
                    ELSE IF c[1] = 17 THEN [i \in 1..(c[2] + 3) |-> 0]
                    ELSE [i \in 1..(c[2] + 11) |-> 0]
         IN RfcExpand(cls, k + 1, acc \o run)

DynTokenBits(tok, lits, dists) ==
    LET c == RfcVecCode(lits, tok.v)
    IN IF tok.t = "sym" THEN RfcBits(c.code, c.len)
       ELSE LET d == RfcVecCode(dists, tok.dsym)
            IN RfcBits(c.code, c.len) \o RfcLsb(tok.lextra, RfcLengthExtraBits(tok.v))
                 \o RfcBits(d.code, d.len)
                 \o RfcLsb(tok.dextra, RfcDistExtraBits(tok.dsym))

\* the body of a dynamic block: HLIT, HDIST, HCLEN = 14, the lengths of the
\* code-length code, the coded length vector, the tokens and the stop code
DynBlockBits(blk) ==
    LET lens == RfcExpand(blk.cls, 1, <<>>)
        lits == SubSeq(lens, 1, blk.hlit + 257)
        dists == SubSeq(lens, blk.hlit + 258, Len(lens))
    IN RfcLsb(blk.hlit, 5) \o RfcLsb(blk.hdist, 5) \o RfcLsb(14, 4)
         \o Flatten([k \in 1..18 |-> RfcLsb(ClLens[RfcCodeLengthOrder[k] + 1], 3)])
         \o Flatten([k \in 1..Len(blk.cls) |-> ClSymBits(blk.cls[k])])
         \o Flatten([k \in 1..Len(blk.toks) |-> DynTokenBits(blk.toks[k], lits, dists)])
         \o DynTokenBits(Sym(256), lits, dists)

\* a byte as 8 bits, bit 0 first
ByteBits(b) == RfcLsb(b, 8)

\* a block appended to the bits before it: BFINAL and BTYPE; for BTYPE = 1
\* the tokens and the stop code; for BTYPE = 2 the body above; for BTYPE = 0 the padding to the next byte
\* boundary, LEN, NLEN = ~LEN and the LEN raw bytes
BlockBits(before, blk) ==
    LET head == before \o <<blk.bfinal>> \o RfcLsb(blk.btype, 2)
    IN IF blk.btype = 1
       THEN head \o Flatten([k \in 1..Len(blk.toks) |-> FixedTokenBits(blk.toks[k])])
              \o FixedTokenBits(Sym(256))
       ELSE IF blk.btype = 2
       THEN head \o DynBlockBits(blk)
       ELSE IF blk.btype = 0
       THEN head \o [k \in 1..((8 - (Len(head) % 8)) % 8) |-> 0]
              \o RfcLsb(Len(blk.toks), 16) \o RfcLsb(65535 - Len(blk.toks), 16)
              \o Flatten([k \in 1..Len(blk.toks) |-> ByteBits(blk.toks[k])])
       ELSE head

RECURSIVE StreamBits(_, _)
StreamBits(blks, n) ==
    IF n = 0 THEN <<>> ELSE BlockBits(StreamBits(blks, n - 1), blks[n])

Pack(bits) ==
    [k \in 1..((Len(bits) + 7) \div 8) |->
        SumOver({i \in 0..7 : 8 * (k - 1) + i + 1 <= Len(bits)},
                [i \in 0..7 |-> IF 8 * (k - 1) + i + 1 <= Len(bits)
                                THEN bits[8 * (k - 1) + i + 1] * 2^i ELSE 0])]

StreamBytes(blks) == Pack(StreamBits(blks, Len(blks)))

\* what follows the DEFLATE data in a gzip file: CRC32 and ISIZE
Trailer == [k \in 1..8 |-> 0]

MaxBlocks == 2

\* the block bodies the streams are made of
Bodies ==
    { [btype |-> 1, toks |-> <<>>],
      [btype |-> 1, toks |-> <<Sym(97)>>],
      [btype |-> 1, toks |-> <<Sym(97), Sym(200), Ref(257, 0, 0, 0)>>],
      [btype |-> 1, toks |-> <<Ref(258, 0, 1, 0)>>],
      [btype |-> 1, toks |-> <<Sym(97), Ref(285, 0, 0, 0), Ref(269, 1, 6, 1)>>],
      [btype |-> 1, toks |-> <<Sym(97), Ref(257, 0, 30, 0)>>],
      [btype |-> 1, toks |-> <<Sym(286)>>],
      [btype |-> 0, toks |-> <<7, 9>>],
      [btype |-> 3, toks |-> <<>>] }

Blocks == {[bfinal |-> f, btype |-> b.btype, toks |-> b.toks] : f \in {0, 1}, b \in Bodies}

Streams == UNION {[1..n -> Blocks] : n \in 1..MaxBlocks}

\* complete gzip bodies, and streams cut short after any number of bytes
WholeInputs == {StreamBytes(s) \o Trailer : s \in Streams}

CutBodies ==
    { [btype |-> 1, toks |-> <<Sym(97)>>],
      [btype |-> 1, toks |-> <<Sym(97), Sym(200), Ref(257, 0, 0, 0)>>] }

CutStreams ==
    UNION {[1..n -> {[bfinal |-> f, btype |-> b.btype, toks |-> b.toks] :
                        f \in {0, 1}, b \in CutBodies}] : n \in 1..2}

CutInputs ==
    UNION {{SubSeq(StreamBytes(s), 1, k) : k \in 0..Len(StreamBytes(s))} : s \in CutStreams}

\* a fixed block that decodes to more than MAX_DISTANCE bytes: one literal,
\* then references of length 258 and distance 1
BigTokens ==
    <<Sym(0)>> \o [k \in 1..((MAX_DISTANCE \div 258) + 1) |-> Ref(285, 0, 0, 0)]

BigInputs == {StreamBytes(<<[bfinal |-> 1, btype |-> 1, toks |-> BigTokens]>>) \o Trailer}

\* dynamic blocks.  The literal/length lengths: 'a' 1, 'b' 2, the stop code
\* and length symbol 257 3 (HLIT = 1); OnlyLiterals has 'a' and the stop code
\* of 1 bit each and one distance code of 0 bits
ZerosTo255 == <<<<18, 127>>, <<18, 8>>>>

OnlyLiterals ==
    [btype |-> 2, hlit |-> 0, hdist |-> 0,
     cls |-> <<<<18, 86>>, <<1, 0>>, <<18, 127>>, <<18, 9>>, <<1, 0>>, <<0, 0>>>>,
     toks |-> <<Sym(97), Sym(97)>>]

\* distance lengths 1, 1
TwoDistances ==
    [btype |-> 2, hlit |-> 1, hdist |-> 1,
     cls |-> <<<<18, 86>>, <<1, 0>>, <<2, 0>>>> \o ZerosTo255
               \o <<<<3, 0>>, <<3, 0>>, <<1, 0>>, <<1, 0>>>>,
     toks |-> <<Sym(97), Sym(98), Ref(257, 0, 0, 0), Ref(257, 0, 1, 0)>>]

\* distance lengths 3, 3, 2, 1: the first distance length equals the last
\* literal/length length
FourDistances ==
    [btype |-> 2, hlit |-> 1, hdist |-> 3,
     cls |-> <<<<18, 86>>, <<1, 0>>, <<2, 0>>>> \o ZerosTo255
               \o <<<<3, 0>>, <<16, 0>>, <<2, 0>>, <<1, 0>>>>,
     toks |-> <<Sym(97), Sym(98), Sym(97), Sym(98), Ref(257, 0, 3, 0)>>]

DynBodies == {OnlyLiterals, TwoDistances, FourDistances}

DynBlocks(f) == {[bfinal |-> f] @@ b : b \in DynBodies}

\* a dynamic block alone, or a dynamic block with BFINAL = 0 and a last block
DynStreams ==
    {<<b>> : b \in DynBlocks(0) \cup DynBlocks(1)}
      \cup {<<b, [bfinal |-> 1] @@ TwoDistances>> : b \in DynBlocks(0)}

DynInputs == {StreamBytes(s) \o Trailer : s \in DynStreams}

CutDynInputs ==
    LET whole == StreamBytes(<<[bfinal |-> 1] @@ TwoDistances>>)
    IN {SubSeq(whole, 1, k) : k \in 1..Len(whole)}

\* a length vector that begins with symbol 16: there is no previous length
\* to repeat (RFC 1951, 3.2.7)
RepeatAtStart ==
    [btype |-> 2, hlit |-> 0, hdist |-> 0,
     cls |-> <<<<16, 0>>, <<18, 83>>, <<1, 0>>, <<18, 127>>, <<18, 9>>, <<1, 0>>,
               <<0, 0>>>>,
     toks |-> <<Sym(97), Sym(97)>>]

\* a length vector whose last symbol, 17 with a run of 3, begins at entry 257
\* of 258: two lengths more than HLIT + HDIST + 258
RepeatPastEnd ==
    [btype |-> 2, hlit |-> 0, hdist |-> 0,
     cls |-> <<<<18, 86>>, <<1, 0>>, <<18, 127>>, <<18, 9>>, <<1, 0>>, <<17, 0>>>>,
     toks |-> <<Sym(97), Sym(97)>>]

MalformedDynBodies == {RepeatAtStart, RepeatPastEnd}

MalformedDynInputs ==
    {StreamBytes(<<[bfinal |-> 1] @@ b>>) \o Trailer : b \in MalformedDynBodies}

Inputs ==
    WholeInputs \cup CutInputs \cup BigInputs \cup DynInputs \cup CutDynInputs
      \cup MalformedDynInputs

IdleDyn ==
    /\ hlit = 0
    /\ hdist = 0
    /\ code_lengths_root = EmptyRoot
    /\ alphabet = <<>>
    /\ code_lengths_node = <<>>
    /\ trees = NoTrees
    /\ written = NoStores

IdleMain ==
    /\ argc = 2
    /\ file = [exists |-> TRUE, bytes |-> <<>>]
    /\ fpos = 0
    /\ flags = 0
    /\ fname = FALSE
    /\ mpc = "idle"
    /\ exit_code = 0
    /\ failed = FALSE

IdleTree == treeIn = [numof_ranges |-> 0, ranges |-> <<>>] /\ treeOut = NoTree

Init ==
    /\ input \in Inputs
    /\ stream = [pos |-> 0, buf |-> 0, mask |-> 1, eof |-> FALSE]
    /\ pc = "start"
    /\ fault = "none"
    /\ undefined_seen = FALSE
    /\ last_block = 0
    /\ literals_root = [fixed |-> FALSE, root |-> EmptyRoot]
    /\ distances_root = [null |-> TRUE, root |-> EmptyRoot]
    /\ node = <<>>
    /\ buf = <<>>
    /\ sink = <<>>
    /\ ret = FALSE
    /\ blocks = <<>>
    /\ emitted = <<>>
    /\ ref = NoRef
    /\ IdleDyn
    /\ IdleMain
    /\ IdleTree

Next ==
    \/ InflateStart
    \/ BlockHeader
    \/ CodesEof
    \/ CodesDescend
    \/ CodesLiteral
    \/ CodesStop
    \/ CodesAssert
    \/ CodesReference
    \/ LengthsDescend
    \/ LengthsSymbol
    \/ LengthsRepeat
    \/ LengthsBuild

Spec == Init /\ [][Next]_vars

(***************************************************************************)
(* The specification of build_huffman_tree alone: the ranges are drawn     *)
(* from a bounded set, ends strictly increasing as every caller produces   *)
(* them.                                                                   *)
(***************************************************************************)
RangeInputs ==
    UNION {
      { [k \in 1..n |-> [end |-> ends[k], bit_length |-> lens[k]]] :
          ends \in {e \in [1..n -> 0..(MaxSym - 1)] :
                      \A k \in 1..(n - 1) : e[k] < e[k + 1]},
          lens \in [1..n -> 0..MaxBits] }
      : n \in 1..MaxRanges }

InitTree ==
    /\ treeIn \in {[numof_ranges |-> Len(r), ranges |-> r] : r \in RangeInputs}
    /\ treeOut = NoTree
    /\ input = <<>>
    /\ stream = [pos |-> 0, buf |-> 0, mask |-> 1, eof |-> FALSE]
    /\ pc = "idle"
    /\ fault = "none"
    /\ undefined_seen = FALSE
    /\ last_block = 0
    /\ literals_root = [fixed |-> FALSE, root |-> EmptyRoot]
    /\ distances_root = [null |-> TRUE, root |-> EmptyRoot]
    /\ node = <<>>
    /\ buf = <<>>
    /\ sink = <<>>
    /\ ret = FALSE
    /\ blocks = <<>>
    /\ emitted = <<>>
    /\ ref = NoRef
    /\ IdleDyn
    /\ IdleMain

BuildTree ==
    /\ ~treeOut.built
    /\ treeOut' = [built |-> TRUE] @@ build_huffman_tree(treeIn.numof_ranges, treeIn.ranges)
    /\ UNCHANGED <<treeIn, inflateVars, dynVars, mainVars>>

NextTree == BuildTree

SpecTree == InitTree /\ [][NextTree]_vars

(***************************************************************************)
(* main.  Every error but a wrong argument count, an input that cannot be  *)
(* opened and a failed fclose ends in `goto done`, and done ends in        *)
(* exit(0).  The strings read_string reads are shorter than its buffer.    *)
(***************************************************************************)
FHCRC == 2
FEXTRA == 4
FNAME == 8
FCOMMENT == 16

\* gzip.header.flags & flag, for a flag that is a power of two
flag_set(flag) == (flags \div flag) % 2 = 1

\* fread(ptr, size, 1, in) < 1 does not hold: size bytes are left from
\* position pos on (with size = 0 fread returns 0)
fread_one(pos, size) == size > 0 /\ pos + size <= Len(file.bytes)

\* the position behind the string read_string reads from position pos on, or
\* -1 when the file ends before a zero byte
read_string(pos) ==
    LET zeros == {k \in (pos + 1)..Len(file.bytes) : file.bytes[k] = 0}
    IN IF zeros = {} THEN -1 ELSE Min(zeros)

\* goto done after an error
GotoDone == mpc' = "done" /\ failed' = TRUE

MainArgs ==
    /\ mpc = "args"
    /\ IF argc # 2
       THEN mpc' = "exited" /\ exit_code' = 1 /\ failed' = TRUE
       ELSE mpc' = "fopen" /\ UNCHANGED <<exit_code, failed>>
    /\ UNCHANGED <<argc, file, fpos, flags, fname, treeVars, inflateVars, dynVars>>

MainFopen ==
    /\ mpc = "fopen"
    /\ IF ~file.exists
       THEN mpc' = "exited" /\ exit_code' = 1 /\ failed' = TRUE
       ELSE mpc' = "header" /\ UNCHANGED <<exit_code, failed>>
    /\ UNCHANGED <<argc, file, fpos, flags, fname, treeVars, inflateVars, dynVars>>

\* the fixed part of the header, the magic number and the method
MainHeader ==
    /\ mpc = "header"
    /\ IF ~fread_one(0, 10) THEN GotoDone /\ UNCHANGED <<fpos, flags>>
       ELSE IF file.bytes[1] # 31 \/ file.bytes[2] # 139
       THEN GotoDone /\ UNCHANGED <<fpos, flags>>
       ELSE IF file.bytes[3] # 8 THEN GotoDone /\ UNCHANGED <<fpos, flags>>
       ELSE /\ mpc' = "extra"
            /\ fpos' = 10
            /\ flags' = file.bytes[4]
            /\ UNCHANGED failed
    /\ UNCHANGED <<argc, file, fname, exit_code, treeVars, inflateVars, dynVars>>

MainExtra ==
    /\ mpc = "extra"
    /\ IF ~flag_set(FEXTRA) THEN mpc' = "name" /\ UNCHANGED <<fpos, failed>>
       ELSE IF ~fread_one(fpos, 2) THEN GotoDone /\ UNCHANGED fpos
       ELSE LET xlen == file.bytes[fpos + 1] + 256 * file.bytes[fpos + 2]
            IN IF ~fread_one(fpos + 2, xlen) THEN GotoDone /\ UNCHANGED fpos
               ELSE mpc' = "name" /\ fpos' = fpos + 2 + xlen /\ UNCHANGED failed
    /\ UNCHANGED <<argc, file, flags, fname, exit_code, treeVars, inflateVars, dynVars>>

MainName ==
    /\ mpc = "name"
    /\ IF ~flag_set(FNAME) THEN mpc' = "comment" /\ UNCHANGED <<fpos, fname, failed>>
       ELSE IF read_string(fpos) < 0 THEN GotoDone /\ UNCHANGED <<fpos, fname>>
       ELSE /\ mpc' = "comment"
            /\ fpos' = read_string(fpos)
            /\ fname' = TRUE
            /\ UNCHANGED failed
    /\ UNCHANGED <<argc, file, flags, exit_code, treeVars, inflateVars, dynVars>>

MainComment ==
    /\ mpc = "comment"
    /\ IF ~flag_set(FCOMMENT) THEN mpc' = "hcrc" /\ UNCHANGED <<fpos, failed>>
       ELSE IF read_string(fpos) < 0 THEN GotoDone /\ UNCHANGED fpos
       ELSE mpc' = "hcrc" /\ fpos' = read_string(fpos) /\ UNCHANGED failed
    /\ UNCHANGED <<argc, file, flags, fname, exit_code, treeVars, inflateVars, dynVars>>

MainHcrc ==
    /\ mpc = "hcrc"
    /\ IF ~flag_set(FHCRC) THEN mpc' = "create" /\ UNCHANGED <<fpos, failed>>
       ELSE IF ~fread_one(fpos, 2) THEN GotoDone /\ UNCHANGED fpos
       ELSE mpc' = "create" /\ fpos' = fpos + 2 /\ UNCHANGED failed
    /\ UNCHANGED <<argc, file, flags, fname, exit_code, treeVars, inflateVars, dynVars>>

\* open(gzip.fname, O_WRONLY | O_CREAT | O_EXCL | O_APPEND, 0744): it fails
\* when gzip.fname is NULL and when the target cannot be created
MainCreate ==
    /\ mpc = "create"
    /\ \E can_create \in BOOLEAN :
          IF fname /\ can_create THEN mpc' = "inflate" /\ UNCHANGED failed
          ELSE GotoDone
    /\ UNCHANGED <<argc, file, fpos, flags, fname, exit_code, treeVars, inflateVars,
                   dynVars>>

\* the call inflate(in, fd): the compressed blocks follow
MainInflate ==
    /\ mpc = "inflate"
    /\ mpc' = "inflating"
    /\ input' = SubSeq(file.bytes, fpos + 1, Len(file.bytes))
    /\ pc' = "start"
    /\ UNCHANGED <<argc, file, fpos, flags, fname, exit_code, failed, treeVars,
                   dynVars, stream, fault, undefined_seen, last_block,
                   literals_root, distances_root, node, buf, sink, ret, blocks,
                   emitted, ref>>

\* if(!inflate(in, fd)) goto done
MainReturn ==
    /\ mpc = "inflating"
    /\ pc = "returned"
    /\ IF ret THEN mpc' = "close" /\ UNCHANGED failed ELSE GotoDone
    /\ UNCHANGED <<argc, file, fpos, flags, fname, exit_code, treeVars, inflateVars,
                   dynVars>>

\* the process is killed inside inflate: SIGABRT after a failed assertion,
\* SIGSEGV otherwise
MainKilled ==
    /\ mpc = "inflating"
    /\ pc = "crashed"
    /\ mpc' = "exited"
    /\ exit_code' = IF fault = "assert" THEN 134 ELSE 139
    /\ failed' = TRUE
    /\ UNCHANGED <<argc, file, fpos, flags, fname, treeVars, inflateVars, dynVars>>

MainClose ==
    /\ mpc = "close"
    /\ \E closed \in BOOLEAN :
          IF closed THEN mpc' = "trailer" /\ UNCHANGED failed ELSE GotoDone
    /\ UNCHANGED <<argc, file, fpos, flags, fname, exit_code, treeVars, inflateVars,
                   dynVars>>

\* fread(&gzip.crc32, 2, 1, in) and fread(&gzip.isize, 2, 1, in), from where
\* inflate's last fread left the file
MainTrailer ==
    /\ mpc = "trailer"
    /\ IF ~fread_one(fpos + stream.pos, 2) THEN GotoDone
       ELSE IF ~fread_one(fpos + stream.pos + 2, 2) THEN GotoDone
       ELSE mpc' = "done" /\ UNCHANGED failed
    /\ UNCHANGED <<argc, file, fpos, flags, fname, exit_code, treeVars, inflateVars,
                   dynVars>>

\* done: fclose(in), exit(1) when it fails, exit(0) otherwise
MainDone ==
    /\ mpc = "done"
    /\ mpc' = "exited"
    /\ \E closed \in BOOLEAN :
          IF closed THEN exit_code' = 0 /\ UNCHANGED failed
          ELSE exit_code' = 1 /\ failed' = TRUE
    /\ UNCHANGED <<argc, file, fpos, flags, fname, treeVars, inflateVars, dynVars>>

\* gzip files: the header, the fields the flags announce, DEFLATE data and
\* the trailer
GzipHeader(h) ==
    <<31, h.magic, h.method, h.flags, 0, 0, 0, 0, 0, 3>>
      \o (IF (h.flags \div FEXTRA) % 2 = 1
          THEN <<h.xlen, 0>> \o [k \in 1..h.xlen |-> 1] ELSE <<>>)
      \o (IF (h.flags \div FNAME) % 2 = 1 THEN <<97, 0>> ELSE <<>>)
      \o (IF (h.flags \div FCOMMENT) % 2 = 1 THEN <<98, 0>> ELSE <<>>)
      \o (IF (h.flags \div FHCRC) % 2 = 1 THEN <<0, 0>> ELSE <<>>)

Headers ==
    { [magic |-> 139, method |-> 8, flags |-> FNAME, xlen |-> 0],
      [magic |-> 139, method |-> 8, flags |-> 0, xlen |-> 0],
      [magic |-> 139, method |-> 8, flags |-> FHCRC + FEXTRA + FNAME + FCOMMENT,
       xlen |-> 1],
      [magic |-> 139, method |-> 8, flags |-> FEXTRA + FNAME, xlen |-> 0],
      [magic |-> 140, method |-> 8, flags |-> FNAME, xlen |-> 0],
      [magic |-> 139, method |-> 7, flags |-> FNAME, xlen |-> 0] }

FileBodies ==
    { StreamBytes(<<[bfinal |-> 1, btype |-> 1,
                     toks |-> <<Sym(97), Sym(200), Ref(257, 0, 0, 0)>>]>>) \o Trailer,
      StreamBytes(<<[bfinal |-> 1, btype |-> 1, toks |-> <<Sym(286)>>]>>) \o Trailer,
      StreamBytes(<<[bfinal |-> 1, btype |-> 0, toks |-> <<7, 9>>]>>) \o Trailer,
      StreamBytes(<<[bfinal |-> 1] @@ TwoDistances>>) \o Trailer }

\* a complete file with every optional field, cut short after any number of
\* bytes
CutFiles ==
    LET whole == GzipHeader([magic |-> 139, method |-> 8,
                             flags |-> FHCRC + FEXTRA + FNAME + FCOMMENT, xlen |-> 1])
                   \o StreamBytes(<<[bfinal |-> 1, btype |-> 1,
                                    toks |-> <<Sym(97), Sym(200), Ref(257, 0, 0, 0)>>]>>)
                   \o Trailer
    IN {SubSeq(whole, 1, k) : k \in 0..Len(whole)}

Files == {GzipHeader(h) \o b : h \in Headers, b \in FileBodies} \cup CutFiles

InitMain ==
    /\ argc \in {1, 2, 3}
    /\ file \in ({[exists |-> TRUE, bytes |-> f] : f \in Files}
                   \cup {[exists |-> FALSE, bytes |-> <<>>]})
    /\ fpos = 0
    /\ flags = 0
    /\ fname = FALSE
    /\ mpc = "args"
    /\ exit_code = 0
    /\ failed = FALSE
    /\ input = <<>>
    /\ stream = [pos |-> 0, buf |-> 0, mask |-> 1, eof |-> FALSE]
    /\ pc = "idle"
    /\ fault = "none"
    /\ undefined_seen = FALSE
    /\ last_block = 0
    /\ literals_root = [fixed |-> FALSE, root |-> EmptyRoot]
    /\ distances_root = [null |-> TRUE, root |-> EmptyRoot]
    /\ node = <<>>
    /\ buf = <<>>
    /\ sink = <<>>
    /\ ret = FALSE
    /\ blocks = <<>>
    /\ emitted = <<>>
    /\ ref = NoRef
    /\ IdleDyn
    /\ IdleTree

NextMain ==
    \/ MainArgs
    \/ MainFopen
    \/ MainHeader
    \/ MainExtra
    \/ MainName
    \/ MainComment
    \/ MainHcrc
    \/ MainCreate
    \/ MainInflate
    \/ MainReturn
    \/ MainKilled
    \/ MainClose
    \/ MainTrailer
    \/ MainDone
    \/ Next

SpecMain == InitMain /\ [][NextMain]_vars

(***************************************************************************)
(* Claims about inflate and inflate_huffman_codes.                         *)
(***************************************************************************)
AllEob == \A k \in 1..Len(blocks) : blocks[k].st = "eob"

\* the inputs made of well-formed fixed and dynamic blocks, the last and
\* only the last with BFINAL = 1, every reference within its own block
WellFormedBodies ==
    { [btype |-> 1, toks |-> <<>>],
      [btype |-> 1, toks |-> <<Sym(97)>>],
      [btype |-> 1, toks |-> <<Sym(97), Sym(200), Ref(257, 0, 0, 0)>>],
      [btype |-> 1, toks |-> <<Sym(97), Ref(285, 0, 0, 0), Ref(269, 1, 6, 1)>>] }

WellFormedStreams ==
    {<<[bfinal |-> 1] @@ b>> : b \in WellFormedBodies}
      \cup {<<[bfinal |-> 0] @@ a, [bfinal |-> 1] @@ b>> :
               a \in WellFormedBodies, b \in WellFormedBodies}
      \cup {<<b>> : b \in DynBlocks(1)}
      \cup {<<b, [bfinal |-> 1] @@ TwoDistances>> : b \in DynBlocks(0)}

WellFormedInputs == {StreamBytes(t) \o Trailer : t \in WellFormedStreams} \cup BigInputs

\* the order of the headers: a header is read only at the start or after a
\* block with BFINAL = 0 has ended, further on in the stream; a block that
\* reached its stop code is followed by the next header when its BFINAL is 0
\* and by success when it is 1; success comes only after a block with
\* BFINAL = 1
HeadersInOrder ==
    /\ \A k \in 1..(Len(blocks) - 1) :
          /\ blocks[k].bfinal = 0
          /\ blocks[k].st \in {"eob", "eof"}
          /\ ~blocks[k + 1].stale => blocks[k].at < blocks[k + 1].at
    /\ blocks # <<>> =>
          /\ (Last(blocks).st = "eob" /\ Last(blocks).bfinal = 0) => pc = "header"
          /\ (Last(blocks).st = "eob" /\ Last(blocks).bfinal = 1) =>
                (pc = "returned" /\ ret = TRUE)
    /\ (pc = "returned" /\ ret = TRUE /\ AllEob) =>
          (blocks # <<>> /\ Last(blocks).bfinal = 1)

\* C1: inflate decodes the blocks in stream order and stops after the first
\* block with BFINAL = 1: the headers are read in order, and on an input made
\* of well-formed fixed and dynamic blocks every block is decoded to its stop
\* code, so that a block with BFINAL = 0 is followed by the next header and
\* inflate returns, with success, after the block with BFINAL = 1.
C1_BlockOrder ==
    /\ HeadersInOrder
    /\ input \in WellFormedInputs =>
          /\ pc # "crashed"
          /\ \A k \in 1..Len(blocks) : blocks[k].st \in {"open", "eob"}
          /\ pc = "returned" => (ret = TRUE /\ Last(blocks).bfinal = 1)

\* two blocks were decoded to their stop codes, the first with BFINAL = 0 and
\* the second with BFINAL = 1, and inflate returned success
C1_Witness ==
    /\ pc = "returned"
    /\ ret = TRUE
    /\ Len(blocks) = 2
    /\ AllEob
    /\ blocks[1].bfinal = 0
    /\ Size(sink) > 0

\* C2: once a byte fetch has failed before the stop code of a block, inflate
\* does not return success and reads no further block header.
C2_EofIsFatal ==
    (\E k \in 1..Len(blocks) : blocks[k].st = "eof") =>
        /\ ~(pc = "returned" /\ ret = TRUE)
        /\ Last(blocks).st = "eof"

\* the input holds a well-formed stored block whose header starts at bit
\* offset `at`: after the padding, LEN, NLEN = ~LEN and LEN bytes
ValidStoredAt(at) ==
    LET p == (at + 3 + 7) \div 8
    IN /\ p + 4 <= Len(input)
       /\ (input[p + 3] + 256 * input[p + 4]) = 65535 - (input[p + 1] + 256 * input[p + 2])
       /\ p + 4 + (input[p + 1] + 256 * input[p + 2]) <= Len(input)

\* C4: a stored block (BTYPE = 0) whose NLEN is the complement of its LEN is
\* decoded, not rejected: its LEN bytes are copied to the sink and inflate
\* goes on or returns success.
C4_StoredCopied ==
    \A k \in 1..Len(blocks) :
        (blocks[k].btype = 0 /\ ~blocks[k].stale /\ ValidStoredAt(blocks[k].at)) =>
            blocks[k].st # "rejected"

\* C5: every back-reference copied has a length in 3..258 and a distance d
\* with 1 <= d <= min(32768, bytes emitted so far in the inflate call).
C5_ValidReferences ==
    ref.set =>
        /\ ref.length \in 3..258
        /\ ref.distance >= 1
        /\ ref.distance <= MAX_DISTANCE
        /\ ref.distance <= ref.before

\* C6: a back-reference that reaches past the start of its block into the
\* output of earlier blocks copies the bytes emitted at those positions.
C6_WindowPersists ==
    (ref.set /\ ref.clean /\ ref.distance > ref.in_block
       /\ ref.distance <= ref.before) =>
        \A j \in 1..ref.length :
            At(emitted, ref.before + j - 1)
                = At(emitted, ref.before + j - 1 - ref.distance)

\* C7: the bytes a block decodes, however many, reach the sink in decoded
\* order before the next header is read: storing a decoded byte never brings
\* the program down, and while every block so far reached its stop code the
\* sink holds every byte decoded before the current block.
C7_BlockBytesReachSink ==
    /\ ~(fault = "store" /\ ~undefined_seen)
    /\ AllEob => sink = emitted

\* C9: in a fixed block the distance symbol is its 5 bits taken most
\* significant bit first (b0*16 + b1*8 + b2*4 + b3*2 + b4), and every
\* extra-bits field is taken least significant bit first.
C9_BitOrder ==
    ref.set =>
        /\ ref.fixed =>
              ref.dsym = SumOver(1..5, [k \in 1..5 |-> ref.dbits[k] * 2^(5 - k)])
        /\ ref.lextra = SumOver(DOMAIN ref.lbits,
                                [k \in DOMAIN ref.lbits |-> ref.lbits[k] * 2^(k - 1)])
        /\ ref.dextra = SumOver(DOMAIN ref.ebits,
                                [k \in DOMAIN ref.ebits |-> ref.ebits[k] * 2^(k - 1)])

\* C9's case: a fixed block's reference whose distance symbol and extra-bits
\* fields read differently in the two bit orders.
C9_Witness ==
    /\ ref.set
    /\ ref.fixed
    /\ ref.dbits = <<0, 0, 1, 1, 0>>
    /\ ref.dsym = 6
    /\ ref.lbits = <<1, 0>>
    /\ ref.ebits = <<1, 0>>
    /\ ref.length = 20
    /\ ref.distance = 10

(***************************************************************************)
(* C8.  The canonical code of RFC 1951, 3.2.2, written from the RFC: the   *)
(* code-length vector the ranges stand for, bl_count with bl_count[0] = 0, *)
(* next_code, and the codes in ascending symbol order.                     *)
(***************************************************************************)
RfcLen(ranges, s) ==
    ranges[CHOOSE k \in 1..Len(ranges) :
              /\ s <= ranges[k].end
              /\ \A j \in 1..(k - 1) : s > ranges[j].end].bit_length

RfcSymbols(ranges) == 0..ranges[Len(ranges)].end

RfcBlCount(ranges, b) ==
    IF b = 0 THEN 0
    ELSE Cardinality({s \in RfcSymbols(ranges) : RfcLen(ranges, s) = b})

RECURSIVE RfcNextCode(_, _)
RfcNextCode(ranges, b) ==
    IF b = 0 THEN 0
    ELSE (RfcNextCode(ranges, b - 1) + RfcBlCount(ranges, b - 1)) * 2

RfcCode(ranges, s) ==
    RfcNextCode(ranges, RfcLen(ranges, s))
      + Cardinality({t \in RfcSymbols(ranges) :
                        t < s /\ RfcLen(ranges, t) = RfcLen(ranges, s)})

\* the lengths admit a prefix code (the Kraft sum is at most 1)
RfcFits(ranges) ==
    LET lens == [s \in RfcSymbols(ranges) |-> RfcLen(ranges, s)]
        top == Max({lens[s] : s \in RfcSymbols(ranges)})
        weight == [s \in RfcSymbols(ranges) |->
                     IF lens[s] = 0 THEN 0 ELSE 2^(top - lens[s])]
    IN SumOver(RfcSymbols(ranges), weight) <= 2^top

\* C8: for every code-length vector that admits a prefix code, given as
\* ranges, build_huffman_tree completes, puts every symbol of non-zero length
\* at the leaf its canonical RFC 1951 code (bl_count[0] = 0) leads to, and
\* makes no symbol of length 0 a leaf.
C8_CanonicalPlacement ==
    (treeOut.built /\ RfcFits(treeIn.ranges)) =>
        LET r == treeIn.ranges
            root == treeOut.root
        IN /\ treeOut.ok
           /\ \A s \in RfcSymbols(r) :
                RfcLen(r, s) > 0 =>
                    LET path == RfcBits(RfcCode(r, s), RfcLen(r, s))
                    IN /\ path \in DOMAIN root
                       /\ root[path] = s
                       /\ \A b \in {0, 1} : Append(path, b) \notin DOMAIN root
           /\ \A q \in DOMAIN root :
                root[q] # -1 => RfcLen(r, root[q]) > 0

\* C8's case: a tree was built from a vector in which an unused symbol
\* (length 0) precedes used ones and two different lengths are in use.
C8_Witness ==
    /\ treeOut.built
    /\ RfcFits(treeIn.ranges)
    /\ \E s, t, u \in RfcSymbols(treeIn.ranges) :
          /\ s < t
          /\ RfcLen(treeIn.ranges, s) = 0
          /\ RfcLen(treeIn.ranges, t) > 0
          /\ RfcLen(treeIn.ranges, u) > RfcLen(treeIn.ranges, t)

(***************************************************************************)
(* C10.  The length vector a call of build_huffman_tree is given: the      *)
(* lengths of the symbols 0 .. ranges[numof_ranges - 1].end, none when     *)
(* numof_ranges is 0.                                                      *)
(***************************************************************************)
RangeLengths(call) ==
    IF call.numof_ranges = 0 THEN <<>>
    ELSE LET r == SubSeq(call.ranges, 1, call.numof_ranges)
         IN [k \in 1..(r[Len(r)].end + 1) |-> RfcLen(r, k - 1)]

\* C10: in a dynamic block the literal/length tree is built from exactly the
\* first HLIT + 257 entries of the decoded length vector and the distance
\* tree from exactly the HDIST + 1 entries after them, however the lengths
\* group into runs.
C10_TreesFromSplit ==
    /\ (trees.calls >= 1 /\ trees.clean) =>
          RangeLengths(trees.literals) = SubSeq(trees.alphabet, 1, trees.hlit + 257)
    /\ (trees.calls = 2 /\ trees.clean) =>
          RangeLengths(trees.distances)
            = SubSeq(trees.alphabet, trees.hlit + 258, trees.hlit + trees.hdist + 258)

\* a dynamic block whose length vector was decoded without fault and whose
\* trees were built from it as C10 says
C10_Witness ==
    /\ trees.calls = 2
    /\ trees.clean
    /\ trees.hdist = 1
    /\ RangeLengths(trees.literals) = SubSeq(trees.alphabet, 1, trees.hlit + 257)
    /\ RangeLengths(trees.distances)
          = SubSeq(trees.alphabet, trees.hlit + 258, trees.hlit + trees.hdist + 258)

(***************************************************************************)
(* C3.                                                                     *)
(***************************************************************************)
\* C3: the exit code of the program is 0 only on success: it is not 0 after
\* any error path of main.
C3_ExitCode == (mpc = "exited" /\ exit_code = 0) => ~failed

\* the program ended with exit code 0 after the whole file was read
C3_Witness == mpc = "exited" /\ exit_code = 0 /\ ~failed /\ pc = "returned" /\ ret

(***************************************************************************)
(* C11: the stores into the length vector of a dynamic block               *)
(***************************************************************************)

\* C11: decoding the code lengths of a dynamic block produces exactly
\* HLIT + HDIST + 258 entries: every store into the length vector is at an
\* index in [0, HLIT + HDIST + 258), the run of a repeat symbol (16, 17, 18)
\* does not go past the end, and symbol 16 at position 0 is not accepted
\* (there is no previous length to copy)
C11_LengthStoresInBounds ==
    /\ Len(alphabet) <= alphabet_length
    /\ fault # "overrun"
    /\ written.code >= 0 =>
          /\ written.first >= 0
          /\ written.last < written.size
          /\ ~(written.code = 16 /\ written.first = 0)

\* symbol 16 decoded after at least one length, its run within the vector
C11_Witness ==
    /\ pc = "lengths"
    /\ written.code = 16
    /\ written.first > 0
    /\ written.last < written.size
    /\ Len(alphabet) = written.last + 1
    /\ alphabet[written.last + 1] = alphabet[written.first]

====
